---- MODULE Spec2Model ----
(***************************************************************************)
(* Model of the POP3 trigger node (nodes/Pop3Trigger/Pop3Trigger.node.ts). *)
(*                                                                         *)
(* Spec        the polling controller: trigger(), executePoll(),           *)
(*             pollMailbox() and the recurring timer.  One action per      *)
(*             continuation of pollMailbox after an await settles.         *)
(* SpecFair    Spec with the assumption that a read on a socket that still *)
(*             emits events settles.                                       *)
(* SpecClient  one Pop3Client session at the level of bytes: connect(),    *)
(*             sendCommand(), readResponse(), quit() and the socket's      *)
(*             events.                                                     *)
(* SpecUidl    listUids() applied to the listings a server may send.       *)
(*                                                                         *)
(* Strings are sequences of one-character strings.                         *)
(***************************************************************************)
EXTENDS Integers, Sequences, FiniteSets, TLC

\* ------------------------------------------------------------------ bounds
MaxMail  == 2     \* messages that ever exist in the server mailbox
MaxFires == 2     \* firings of the recurring timer
MaxLimit == 2     \* values of the node parameter `limit` are 1..MaxLimit
MaxCmds  == 2     \* commands sent on one client session
MaxLines == 2     \* lines of a UIDL listing

VARIABLES
    \* node parameters, read once in trigger()
    emitOnStart, deleteAfterDownload, limit,
    \* closure state of trigger()
    staticData,      \* [knownUids, initialized]: the workflow static data
    knownUids,       \* the in-memory Set built from staticData.knownUids
    hasInitialized,  \* Boolean(staticData.initialized), read once
    active,          \* the single-flight flag of executePoll
    trig,            \* where trigger() / the timer stands
    fired,           \* number of timer firings so far
    cyc,             \* pollMailbox calls in flight, oldest first
    hist,            \* pollMailbox calls that have settled, oldest first
    sink,            \* batches handed to this.emit, oldest first
    stopAt,          \* [fired, started, ended] when closeFunction ran
    \* the mail server
    mailbox,         \* uids on the server, in server order
    nextUid,         \* next uid the server assigns
    \* one Pop3Client and its socket
    buffer,          \* this.buffer
    socket,          \* this.socket: "null", "open", "closed" (destroyed), or
                     \* "broken" (destroyed, and written to since)
    listeners,       \* events of the socket that have a listener registered
    reading,         \* the read that was started last: none/greeting/single/multi
    outcome,         \* the promise of that read: [state, text]
    wire,            \* bytes the server has sent that have not arrived yet
    resp,            \* the response the server sent to the last command
    verb,            \* the command written last
    ncmds,           \* commands written so far
    quit,            \* the promise of quit(): none, pending or resolved
    calls,           \* calls of sendCommand so far
    chunks,          \* 'data' events the read started last has handled
    \* one call of listUids
    listing,         \* the lines the server lists in answer to UIDL
    uidlOut          \* [done, refs]: what listUids returned

ctlVars == <<emitOnStart, deleteAfterDownload, limit, staticData, knownUids,
             hasInitialized, active, trig, fired, cyc, hist, sink, stopAt,
             mailbox, nextUid>>

clVars == <<buffer, socket, listeners, reading, outcome, wire, resp, verb, ncmds,
            quit, calls, chunks>>

parseVars == <<listing, uidlOut>>

vars == <<ctlVars, clVars, parseVars>>

\* ------------------------------------------------------------- helpers
Last(s) == s[Len(s)]

\* the sequence s without its i-th element
Remove(s, i) == [j \in 1..(Len(s) - 1) |-> IF j < i THEN s[j] ELSE s[j + 1]]

\* Array.prototype.slice(0, n)
Slice0(s, n) == IF n >= Len(s) THEN s ELSE SubSeq(s, 1, n)

UidsOf(refs) == {refs[i].uid : i \in DOMAIN refs}

\* what UIDL lists: one reference per message, index = position on the server
ServerRefs(mbox) == [i \in DOMAIN mbox |-> [index |-> i, uid |-> mbox[i]]]

\* the server applies the session's DELE marks when it receives QUIT
Expunge(mbox, dels) == SelectSeq(mbox, LAMBDA u : u \notin dels)

\* ------------------------------------------------- pollMailbox, as pure parts
\* mutant: the single-flight test is missing
executePollNeverSkips == FALSE

\* executePoll: `if (active) return;`
executePollSkips == active

\* mutant: the negation of hasInitialized is missing
TakesBaselineInverted == hasInitialized /\ ~emitOnStart

\* pollMailbox: `if (!hasInitialized && !emitOnStart)`
TakesBaseline == ~hasInitialized /\ ~emitOnStart

\* mutant: the slice takes one reference too many
SelectNewOffByOne(refs, known, lim) ==
    Slice0(SelectSeq(refs, LAMBDA ref : ref.uid \notin known), lim + 1)

\* mutant: the filter on the known uids is missing
SelectNewNoFilter(refs, known, lim) == Slice0(refs, lim)

\* pollMailbox: messageRefs.filter((ref) => !knownUids.has(ref.uid)).slice(0, limit)
SelectNew(refs, known, lim) ==
    Slice0(SelectSeq(refs, LAMBDA ref : ref.uid \notin known), lim)

\* mutant: the known set is not written back
PersistKnownNever(sd, known) == sd

\* mutant: the finally block marks the mailbox initialized
PersistKnownMarksInitialized(sd, known) == [knownUids |-> known, initialized |-> TRUE]

\* pollMailbox, finally: staticData.knownUids = Array.from(knownUids)
PersistKnown(sd, known) == [sd EXCEPT !.knownUids = known]

\* pollMailbox after its try/catch/finally: the catch rethrows, so the emit
\* below the finally block runs only when nothing was thrown
Delivers(r) == ~r.thrown /\ Len(r.items) > 0

\* mutant: a failed poll of the timer stops the scheduler too
AfterPollStopsOnError(origin, thrown, t) ==
    IF thrown THEN "rejected" ELSE IF origin = "initial" THEN "scheduled" ELSE t

\* trigger(): `await executePoll()` lets a failure of the first poll reject
\* trigger() before setInterval is reached; the timer callback catches and
\* logs the failure of a later poll
AfterPoll(origin, thrown, t) ==
    IF origin = "initial"
    THEN IF thrown THEN "rejected" ELSE "scheduled"
    ELSE t

\* a pollMailbox call that has just created its client and called connect()
NewCycle(origin) ==
    [origin |-> origin, pc |-> "connect", sock |-> "open",
     refs |-> <<>>, newRefs |-> <<>>, k |-> 0, items |-> <<>>,
     cmds |-> <<>>, dels |-> {}, thrown |-> FALSE, failedAt |-> "none",
     path |-> "none", init0 |-> staticData.initialized, known0 |-> knownUids,
     known1 |-> {}, delivered |-> FALSE, oks |-> 0]

\* sendCommand: the command line is written to the socket
Send(r, cmd, arg, pc) == [r EXCEPT !.pc = pc, !.cmds = Append(@, <<cmd, arg>>)]

\* an awaited connect or command has resolved
Ok(r) == [r EXCEPT !.oks = @ + 1]

\* mutant: every retrieved message is deleted, whatever the parameter says
DeletesAlways == TRUE

\* pollMailbox: `if (deleteAfterDownload)`
DeletesAfterEmit == deleteAfterDownload

\* mutant: the uid of a retrieved message is not remembered
KnownAfterRetrForgets(known, uid) == known

\* pollMailbox: knownUids.add(ref.uid)
KnownAfterRetr(known, uid) == known \cup {uid}

\* executePoll()
executePoll(origin) ==
    IF executePollSkips
    THEN UNCHANGED <<active, cyc>>
    ELSE /\ active' = TRUE
         /\ cyc' = Append(cyc, NewCycle(origin))

\* the catch/finally of pollMailbox up to the await inside client.quit()
Finally(c, r, sd, known) ==
    /\ staticData' = PersistKnown(sd, known)
    /\ knownUids' = known
    /\ cyc' = [cyc EXCEPT ![c] = Send(r, "QUIT", 0, "quit")]
    /\ mailbox' = IF r.sock = "open" THEN Expunge(mailbox, r.dels) ELSE mailbox

\* the head of `for (const ref of newRefs)`: r.k references are done
Loop(c, r, sd, known) ==
    IF r.k < Len(r.newRefs)
    THEN /\ cyc' = [cyc EXCEPT ![c] =
                       Send([r EXCEPT !.k = r.k + 1], "RETR", r.newRefs[r.k + 1].index, "retr")]
         /\ staticData' = sd
         /\ knownUids' = known
         /\ UNCHANGED mailbox
    ELSE Finally(c, r, sd, known)

Awaiting(c, pcs) == c \in DOMAIN cyc /\ cyc[c].pc \in pcs /\ cyc[c].sock = "open"

params == <<emitOnStart, deleteAfterDownload, limit, hasInitialized>>


\* -------------------------------------------------- JavaScript string methods
CRLF == <<"\r", "\n">>
DotLine == <<"\r", "\n", ".", "\r", "\n">>
OkToken == <<"+", "O", "K">>
ErrToken == <<"-", "E", "R", "R">>

\* String.prototype.startsWith
StartsWith(str, t) == Len(str) >= Len(t) /\ SubSeq(str, 1, Len(t)) = t

\* the 0-based positions at which t occurs in str
Occurrences(str, t) ==
    {i \in 0..(Len(str) - Len(t)) : SubSeq(str, i + 1, i + Len(t)) = t}

\* String.prototype.includes
Includes(str, t) == Occurrences(str, t) # {}

\* String.prototype.indexOf: 0-based, -1 when absent
IndexOf(str, t) ==
    IF Occurrences(str, t) = {} THEN -1
    ELSE CHOOSE i \in Occurrences(str, t) : \A j \in Occurrences(str, t) : i <= j

\* String.prototype.lastIndexOf
LastIndexOf(str, t) ==
    IF Occurrences(str, t) = {} THEN -1
    ELSE CHOOSE i \in Occurrences(str, t) : \A j \in Occurrences(str, t) : i >= j

\* String.prototype.slice(from, to) for 0 <= from, to <= length
Slice(str, from, to) == IF to <= from THEN <<>> ELSE SubSeq(str, from + 1, to)

\* String.prototype.replace(t, ''): the first occurrence only
ReplaceFirst(str, t) ==
    IF IndexOf(str, t) = -1 THEN str
    ELSE Slice(str, 0, IndexOf(str, t)) \o Slice(str, IndexOf(str, t) + Len(t), Len(str))

WhiteSpace == {" ", "\t", "\r", "\n"}

\* String.prototype.trim
Trim(str) ==
    LET keep == {i \in DOMAIN str : str[i] \notin WhiteSpace}
    IN IF keep = {} THEN <<>>
       ELSE SubSeq(str, CHOOSE i \in keep : \A j \in keep : i <= j,
                        CHOOSE i \in keep : \A j \in keep : i >= j)

\* ------------------------------------------------------------- Pop3Client
AllListeners == {"data", "error", "timeout"}

Pending == [state |-> "pending", text |-> <<>>]
Resolved(body) == [state |-> "resolved", text |-> body]
Rejected(message) == [state |-> "rejected", text |-> message]

\* listUids() and retrieve() call sendCommand(command, true)
Multiline(v) == v \in {"UIDL", "RETR"}

\* readResponse: const terminator = multiline ? '\r\n.\r\n' : '\r\n'
Terminator(multiline) == IF multiline THEN DotLine ELSE CRLF

\* readResponse, onData, once the buffer includes the terminator
ParseResponse(response, multiline) ==
    LET firstLineEnd == IndexOf(response, CRLF)
        status == IF firstLineEnd = -1 THEN response ELSE Slice(response, 0, firstLineEnd)
        bodyStart == IF firstLineEnd = -1 THEN Len(response) ELSE firstLineEnd + 2
        body == Slice(response, bodyStart, Len(response))
        terminatorIndex == LastIndexOf(body, DotLine)
        message == Trim(ReplaceFirst(status, ErrToken))
    IN IF ~StartsWith(status, OkToken)
       THEN Rejected(IF message = <<>> THEN <<"POP3 command failed">> ELSE message)
       ELSE IF multiline /\ terminatorIndex # -1
            THEN Resolved(Slice(body, 0, terminatorIndex))
            ELSE Resolved(body)

\* mutant: the terminator is looked for in the chunk, not in the buffer
OnDataChunkOnly(buf, chunk, multiline) ==
    IF ~Includes(chunk, Terminator(multiline))
    THEN [buffer |-> buf \o chunk, outcome |-> Pending]
    ELSE [buffer |-> <<>>, outcome |-> ParseResponse(buf \o chunk, multiline)]

\* readResponse, onData: [buffer, outcome] after the chunk
OnData(buf, chunk, multiline) ==
    IF ~Includes(buf \o chunk, Terminator(multiline))
    THEN [buffer |-> buf \o chunk, outcome |-> Pending]
    ELSE [buffer |-> <<>>, outcome |-> ParseResponse(buf \o chunk, multiline)]

\* connect, onData: [buffer, outcome] after the chunk
OnGreeting(buf, chunk) ==
    IF ~Includes(buf \o chunk, CRLF)
    THEN [buffer |-> buf \o chunk, outcome |-> Pending]
    ELSE [buffer |-> <<>>,
          outcome |-> IF StartsWith(Slice(buf \o chunk, 0, IndexOf(buf \o chunk, CRLF)), OkToken)
                      THEN Resolved(<<>>)
                      ELSE Rejected(<<"POP3 server rejected connection">>)]

\* what a POP3 server answers: one line to the greeting and to USER, PASS and
\* DELE; to UIDL and RETR a block ended by a line holding one dot, or one -ERR line
Greetings ==
    { OkToken \o <<" ", "h">> \o CRLF,
      ErrToken \o <<" ", "b">> \o CRLF }
SingleLineResponses ==
    { OkToken \o CRLF,
      OkToken \o <<" ", "-", "E", "R", "R">> \o CRLF,
      ErrToken \o <<" ", "n", " ", "o">> \o CRLF }
MultiLineResponses ==
    { OkToken \o CRLF \o <<"1", " ", "a">> \o DotLine,
      OkToken \o CRLF \o ErrToken \o DotLine,
      ErrToken \o <<" ", "n", "o">> \o CRLF }
ResponsesTo(rd) ==
    IF rd = "greeting" THEN Greetings
    ELSE IF rd = "multi" THEN MultiLineResponses ELSE SingleLineResponses

\* quit(), once the read of QUIT has settled: `catch {}` swallows a rejection;
\* finally: socket.end(); socket.destroy(); this.socket = null
QuitEnds(q, out, sock) ==
    IF q = "pending" /\ out.state # "pending"
    THEN [quit |-> "resolved", socket |-> "null"]
    ELSE [quit |-> q, socket |-> sock]

\* no client exists
ClientIdle ==
    /\ buffer = <<>>
    /\ socket = "null"
    /\ listeners = {}
    /\ reading = "none"
    /\ outcome = [state |-> "none", text |-> <<>>]
    /\ wire = <<>>
    /\ resp = <<>>
    /\ verb = "none"
    /\ ncmds = 0
    /\ quit = "none"
    /\ calls = 0
    /\ chunks = 0

\* connect(): the socket is built and the greeting read starts
Connect ==
    /\ socket = "null"
    /\ reading = "none"
    /\ socket' = "open"
    /\ listeners' = AllListeners
    /\ reading' = "greeting"
    /\ outcome' = Pending
    /\ UNCHANGED <<buffer, wire, resp, verb, ncmds, quit, calls, chunks, ctlVars, parseVars>>

\* sendCommand() on a socket: the buffer is cleared, the line is written and
\* the read starts; a write to a destroyed socket reaches nobody
Write(v) ==
    /\ socket # "null"
    /\ buffer' = <<>>
    /\ verb' = v
    /\ ncmds' = ncmds + 1
    /\ calls' = calls + 1
    /\ chunks' = 0
    /\ resp' = <<>>
    /\ reading' = IF Multiline(v) THEN "multi" ELSE "single"
    /\ listeners' = AllListeners
    /\ outcome' = Pending
    /\ socket' = IF socket = "open" THEN "open" ELSE "broken"
    /\ UNCHANGED <<wire, ctlVars, parseVars>>

\* sendCommand(): called by login, listUids, retrieve and delete once the
\* previous read has resolved
SendCommand(v) ==
    /\ outcome.state = "resolved"
    /\ quit = "none"
    /\ ncmds < MaxCmds
    /\ Write(v)
    /\ UNCHANGED quit

\* quit() with a socket, called from the finally block of pollMailbox once
\* the session's last await has settled: QUIT is written and awaited
Quit ==
    /\ outcome.state \in {"resolved", "rejected"}
    /\ quit = "none"
    /\ Write("QUIT")
    /\ quit' = "pending"

\* sendCommand() after quit() has released the socket: it throws before
\* anything is written
SendCommandUnconnected(v) ==
    /\ socket = "null"
    /\ quit = "resolved"
    /\ calls = ncmds
    /\ calls' = calls + 1
    /\ outcome' = Rejected(<<"Socket not connected">>)
    /\ UNCHANGED <<buffer, socket, listeners, reading, wire, resp, verb, ncmds, quit,
                   chunks, ctlVars, parseVars>>

\* the server answers the greeting or the command it received
ServerResponds(r) ==
    /\ socket = "open"
    /\ outcome.state = "pending"
    /\ resp = <<>>
    /\ r \in ResponsesTo(reading)
    /\ resp' = r
    /\ wire' = wire \o r
    /\ UNCHANGED <<buffer, socket, listeners, reading, outcome, verb, ncmds, quit,
                   calls, chunks, ctlVars, parseVars>>

\* the socket emits 'data' with the next n bytes
DeliverChunk(n) ==
    /\ socket = "open"
    /\ wire' = SubSeq(wire, n + 1, Len(wire))
    /\ IF "data" \in listeners
       THEN LET h == IF reading = "greeting"
                     THEN OnGreeting(buffer, SubSeq(wire, 1, n))
                     ELSE OnData(buffer, SubSeq(wire, 1, n), reading = "multi")
            IN /\ buffer' = h.buffer
               /\ outcome' = h.outcome
               /\ listeners' = IF h.outcome.state = "pending" THEN listeners ELSE {}
               /\ chunks' = chunks + 1
               /\ quit' = QuitEnds(quit, h.outcome, socket).quit
               /\ socket' = QuitEnds(quit, h.outcome, socket).socket
       ELSE UNCHANGED <<buffer, outcome, listeners, chunks, quit, socket>>
    /\ UNCHANGED <<reading, resp, verb, ncmds, calls, ctlVars, parseVars>>

Deliver == \E n \in 1..Len(wire) : DeliverChunk(n)

\* the socket emits 'timeout': nothing has arrived for options.timeout ms
SocketTimeout ==
    /\ socket = "open"
    /\ wire = <<>>
    /\ "timeout" \in listeners
    /\ listeners' = {}
    /\ outcome' = Rejected(IF reading = "greeting"
                           THEN <<"POP3 connection timed out">>
                           ELSE <<"POP3 command timed out">>)
    /\ quit' = QuitEnds(quit, outcome', socket).quit
    /\ socket' = QuitEnds(quit, outcome', socket).socket
    /\ UNCHANGED <<buffer, reading, wire, resp, verb, ncmds, calls, chunks, ctlVars, parseVars>>

\* the socket emits 'error' and is destroyed; what was in flight never arrives
SocketError ==
    /\ socket = "open"
    /\ "error" \in listeners
    /\ listeners' = {}
    /\ outcome' = Rejected(<<"socket error">>)
    /\ quit' = QuitEnds(quit, outcome', "closed").quit
    /\ socket' = QuitEnds(quit, outcome', "closed").socket
    /\ UNCHANGED <<buffer, reading, wire, resp, verb, ncmds, calls, chunks, ctlVars, parseVars>>

\* a command was written to a destroyed socket: whether the socket emits
\* 'error' for the failed write depends on the runtime; this is the run in
\* which it does
WriteError ==
    /\ socket = "broken"
    /\ "error" \in listeners
    /\ listeners' = {}
    /\ outcome' = Rejected(<<"socket error">>)
    /\ quit' = QuitEnds(quit, outcome', "closed").quit
    /\ socket' = QuitEnds(quit, outcome', "closed").socket
    /\ UNCHANGED <<buffer, reading, wire, resp, verb, ncmds, calls, chunks, ctlVars, parseVars>>

\* the peer ends the connection after all it sent has arrived: the socket
\* emits 'end' and 'close', which have no listener, and is destroyed
PeerClose ==
    /\ socket = "open"
    /\ wire = <<>>
    /\ socket' = "closed"
    /\ UNCHANGED <<buffer, listeners, reading, outcome, wire, resp, verb, ncmds, quit,
                   calls, chunks, ctlVars, parseVars>>

\* the controller before trigger() runs, held fixed while the client runs
ControllerIdle ==
    /\ emitOnStart = FALSE
    /\ deleteAfterDownload = FALSE
    /\ limit = 1
    /\ mailbox = <<>>
    /\ nextUid = 1
    /\ staticData = [knownUids |-> {}, initialized |-> FALSE]
    /\ knownUids = {}
    /\ hasInitialized = FALSE
    /\ active = FALSE
    /\ trig = "start"
    /\ fired = 0
    /\ cyc = <<>>
    /\ hist = <<>>
    /\ sink = <<>>
    /\ stopAt = [fired |-> 0, started |-> 0, ended |-> 0]

\* listUids has not been called
ParserIdle ==
    /\ listing = <<>>
    /\ uidlOut = [done |-> FALSE, refs |-> <<>>]

InitClient == ControllerIdle /\ ClientIdle /\ ParserIdle

NextClient ==
    \/ Connect
    \/ \E v \in {"USER", "PASS", "UIDL", "RETR", "DELE"} : SendCommand(v)
    \/ Quit
    \/ \E v \in {"USER", "PASS", "UIDL", "RETR", "DELE"} : SendCommandUnconnected(v)
    \/ \E r \in Greetings \cup SingleLineResponses \cup MultiLineResponses : ServerResponds(r)
    \/ Deliver
    \/ SocketTimeout
    \/ SocketError
    \/ WriteError
    \/ PeerClose

SpecClient == InitClient /\ [][NextClient]_vars

\* ---------------------------------------------------------------- listUids
\* String.prototype.split(sep) for a non-empty separator
RECURSIVE Split(_, _)
Split(str, sep) ==
    IF IndexOf(str, sep) = -1 THEN <<str>>
    ELSE <<Slice(str, 0, IndexOf(str, sep))>>
         \o Split(Slice(str, IndexOf(str, sep) + Len(sep), Len(str)), sep)

Digits == <<"0", "1", "2", "3", "4", "5", "6", "7", "8", "9">>
IsDigit(ch) == \E d \in DOMAIN Digits : Digits[d] = ch
DigitValue(ch) == (CHOOSE d \in DOMAIN Digits : Digits[d] = ch) - 1

\* the number a sequence of decimal digits denotes
RECURSIVE DigitsValue(_)
DigitsValue(ds) ==
    IF ds = <<>> THEN 0
    ELSE 10 * DigitsValue(SubSeq(ds, 1, Len(ds) - 1)) + DigitValue(ds[Len(ds)])

\* the longest prefix of str made of digits
RECURSIVE DigitPrefix(_)
DigitPrefix(str) ==
    IF str = <<>> \/ ~IsDigit(str[1]) THEN <<>>
    ELSE <<str[1]>> \o DigitPrefix(Tail(str))

\* Number.parseInt(str, 10): leading white space is skipped, a sign is taken,
\* then the longest run of digits; what follows is ignored; no digit gives NaN
ParseInt(str) ==
    LET keep   == {i \in DOMAIN str : str[i] \notin WhiteSpace}
        t      == IF keep = {} THEN <<>>
                  ELSE SubSeq(str, CHOOSE i \in keep : \A j \in keep : i <= j, Len(str))
        signed == t # <<>> /\ t[1] \in {"+", "-"}
        ds     == DigitPrefix(IF signed THEN Tail(t) ELSE t)
    IN IF ds = <<>> THEN [nan |-> TRUE, value |-> 0]
       ELSE [nan |-> FALSE,
             value |-> IF signed /\ t[1] = "-" THEN 0 - DigitsValue(ds) ELSE DigitsValue(ds)]

\* listUids, the second map: const [index, uid] = line.split(' '); a uid that
\* is undefined is written <<>> here: both are dropped by the filter
ParseLine(line) ==
    LET fields == Split(line, <<" ">>)
    IN [index |-> ParseInt(fields[1]),
        uid |-> IF Len(fields) >= 2 THEN fields[2] ELSE <<>>]

\* listUids, after the await: split, trim, filter(Boolean), map, filter
listUids(body) ==
    LET lines   == Split(body, CRLF)
        trimmed == [i \in DOMAIN lines |-> Trim(lines[i])]
        nonEmpty == SelectSeq(trimmed, LAMBDA l : l # <<>>)
        entries == [i \in DOMAIN nonEmpty |-> ParseLine(nonEmpty[i])]
        kept    == SelectSeq(entries, LAMBDA e : ~e.index.nan /\ e.uid # <<>>)
    IN [i \in DOMAIN kept |-> [index |-> kept[i].index.value, uid |-> kept[i].uid]]

\* lines a server may list: well-formed ones, and malformed ones of each kind
UidlLines ==
    { <<"1", " ", "a">>, <<"2", " ", "b">>, <<" ", "1", "0", " ", "a", "b", " ">>,
      <<"x", " ", "y">>, <<"0", " ", "z">>, <<"-", "1", " ", "n">>,
      <<"2", "x", " ", "q">>, <<"3">>, <<>> }

Listings == UNION {[1..n -> UidlLines] : n \in 0..MaxLines}

\* the response to UIDL that lists the lines
RECURSIVE JoinLines(_)
JoinLines(lines) ==
    IF lines = <<>> THEN <<>> ELSE lines[1] \o CRLF \o JoinLines(Tail(lines))

UidlResponse(lines) == OkToken \o CRLF \o JoinLines(lines) \o <<".">> \o CRLF

InitUidl ==
    /\ ControllerIdle
    /\ ClientIdle
    /\ listing \in Listings
    /\ uidlOut = [done |-> FALSE, refs |-> <<>>]

\* listUids(): the response has arrived; readResponse resolves with the body
ListUids ==
    /\ ~uidlOut.done
    /\ uidlOut' = [done |-> TRUE,
                   refs |-> listUids(ParseResponse(UidlResponse(listing), TRUE).text)]
    /\ UNCHANGED <<listing, ctlVars, clVars>>

NextUidl == ListUids

SpecUidl == InitUidl /\ [][NextUidl]_vars

\* ------------------------------------------------------------ initial state
\* static data left by earlier activations of the workflow: nothing, or an
\* initialized mailbox with some of the present uids known
InitialStaticData(mbox) ==
    {[knownUids |-> {}, initialized |-> FALSE]} \cup
    {[knownUids |-> S, initialized |-> TRUE] : S \in SUBSET {mbox[i] : i \in DOMAIN mbox}}

\* trigger() up to `let active = false`
Init ==
    /\ emitOnStart \in BOOLEAN
    /\ deleteAfterDownload \in BOOLEAN
    /\ limit \in 1..MaxLimit
    /\ \E n \in 0..(MaxMail - 1) :
          /\ mailbox = [i \in 1..n |-> i]
          /\ nextUid = n + 1
    /\ staticData \in InitialStaticData(mailbox)
    /\ knownUids = staticData.knownUids
    /\ hasInitialized = staticData.initialized
    /\ active = FALSE
    /\ trig = "start"
    /\ fired = 0
    /\ cyc = <<>>
    /\ hist = <<>>
    /\ sink = <<>>
    /\ stopAt = [fired |-> 0, started |-> 0, ended |-> 0]
    /\ ClientIdle
    /\ ParserIdle

\* ------------------------------------------------------------------ actions
\* trigger(): `await executePoll()`
InitialPoll ==
    /\ trig = "start"
    /\ trig' = "initial"
    /\ executePoll("initial")
    /\ UNCHANGED <<params, stopAt, staticData, knownUids, fired, hist, sink, mailbox, nextUid, clVars, parseVars>>

\* mutant: closeFunction does not cancel the timer
TimerFireAfterStop ==
    /\ trig \in {"scheduled", "stopped"}
    /\ fired < MaxFires
    /\ fired' = fired + 1
    /\ executePoll("timer")
    /\ UNCHANGED <<params, stopAt, staticData, knownUids, trig, hist, sink, mailbox, nextUid,
                   clVars, parseVars>>

\* the setInterval callback
TimerFire ==
    /\ trig = "scheduled"
    /\ fired < MaxFires
    /\ fired' = fired + 1
    /\ executePoll("timer")
    /\ UNCHANGED <<params, stopAt, staticData, knownUids, trig, hist, sink, mailbox, nextUid, clVars, parseVars>>

\* closeFunction: clearInterval(interval)
Stop ==
    /\ trig = "scheduled"
    /\ trig' = "stopped"
    /\ stopAt' = [fired |-> fired, started |-> Len(hist) + Len(cyc), ended |-> Len(hist)]
    /\ UNCHANGED <<params, staticData, knownUids, active, fired, cyc, hist, sink,
                   mailbox, nextUid, clVars, parseVars>>

\* mutant: login() writes PASS without awaiting the response to USER
ConnectOkPipelined(c) ==
    /\ Awaiting(c, {"connect"})
    /\ cyc' = [cyc EXCEPT ![c] = Send(Send(Ok(cyc[c]), "USER", 0, "user"), "PASS", 0, "pass")]
    /\ UNCHANGED <<params, stopAt, staticData, knownUids, active, trig, fired, hist, sink,
                   mailbox, nextUid, clVars, parseVars>>

\* connect(): the greeting starts with +OK; login() writes USER
ConnectOk(c) ==
    /\ Awaiting(c, {"connect"})
    /\ cyc' = [cyc EXCEPT ![c] = Send(Ok(cyc[c]), "USER", 0, "user")]
    /\ UNCHANGED <<params, stopAt, staticData, knownUids, active, trig, fired, hist, sink,
                   mailbox, nextUid, clVars, parseVars>>

\* login(): +OK to USER; PASS is written
UserOk(c) ==
    /\ Awaiting(c, {"user"})
    /\ cyc' = [cyc EXCEPT ![c] = Send(Ok(cyc[c]), "PASS", 0, "pass")]
    /\ UNCHANGED <<params, stopAt, staticData, knownUids, active, trig, fired, hist, sink,
                   mailbox, nextUid, clVars, parseVars>>

\* login(): +OK to PASS; listUids() writes UIDL
PassOk(c) ==
    /\ Awaiting(c, {"pass"})
    /\ cyc' = [cyc EXCEPT ![c] = Send(Ok(cyc[c]), "UIDL", 0, "uidl")]
    /\ UNCHANGED <<params, stopAt, staticData, knownUids, active, trig, fired, hist, sink,
                   mailbox, nextUid, clVars, parseVars>>

\* listUids() returns: the baseline return, or the selection and the first RETR
UidlOk(c) ==
    /\ Awaiting(c, {"uidl"})
    /\ LET refs == ServerRefs(mailbox)
           r    == [Ok(cyc[c]) EXCEPT !.refs = refs]
       IN IF TakesBaseline
          THEN Finally(c, [r EXCEPT !.path = "baseline"],
                       [staticData EXCEPT !.initialized = TRUE],
                       knownUids \cup UidsOf(refs))
          ELSE Loop(c, [r EXCEPT !.path = "normal",
                                 !.newRefs = SelectNew(refs, knownUids, limit)],
                    [staticData EXCEPT !.initialized = TRUE], knownUids)
    /\ UNCHANGED <<params, stopAt, active, trig, fired, hist, sink, nextUid, clVars, parseVars>>

\* retrieve() returns: the uid becomes known, the record is pushed, and DELE
\* is written or the loop goes on
RetrOk(c) ==
    /\ Awaiting(c, {"retr"})
    /\ LET ref   == cyc[c].newRefs[cyc[c].k]
           r     == [Ok(cyc[c]) EXCEPT !.items = Append(@, [uid |-> ref.uid, index |-> ref.index])]
           known == KnownAfterRetr(knownUids, ref.uid)
       IN IF DeletesAfterEmit
          THEN /\ cyc' = [cyc EXCEPT ![c] = Send(r, "DELE", ref.index, "dele")]
               /\ knownUids' = known
               /\ UNCHANGED <<staticData, mailbox>>
          ELSE Loop(c, r, staticData, known)
    /\ UNCHANGED <<params, stopAt, active, trig, fired, hist, sink, nextUid, clVars, parseVars>>

\* delete() returns: the server has marked the message; the loop goes on
DeleOk(c) ==
    /\ Awaiting(c, {"dele"})
    /\ LET ref == cyc[c].newRefs[cyc[c].k]
       IN Loop(c, [Ok(cyc[c]) EXCEPT !.dels = @ \cup {ref.uid}], staticData, knownUids)
    /\ UNCHANGED <<params, stopAt, active, trig, fired, hist, sink, nextUid, clVars, parseVars>>

FailKinds == {"status", "timeout", "error"}

\* mutant: login() goes on to PASS after USER failed
CommandFailsLoginGoesOn(c, kind) ==
    /\ Awaiting(c, {"connect", "user", "pass", "uidl", "retr", "dele"})
    /\ IF cyc[c].pc = "user"
       THEN /\ cyc' = [cyc EXCEPT ![c] =
                          Send([cyc[c] EXCEPT !.failedAt = "user"], "PASS", 0, "pass")]
            /\ UNCHANGED <<staticData, knownUids, mailbox>>
       ELSE Finally(c, [cyc[c] EXCEPT !.thrown = TRUE, !.failedAt = cyc[c].pc,
                                      !.sock = IF kind = "error" THEN "errored" ELSE "open"],
                    staticData, knownUids)
    /\ UNCHANGED <<params, stopAt, active, trig, fired, hist, sink, nextUid, clVars, parseVars>>

\* an awaited connect/login/listUids/retrieve/delete rejects: a status line
\* that does not start with +OK, the socket's idle timeout, or a socket error
\* (which destroys the socket); the catch sets the rethrow and finally runs
\* and writes QUIT, to a destroyed socket after an error
CommandFails(c, kind) ==
    /\ Awaiting(c, {"connect", "user", "pass", "uidl", "retr", "dele"})
    /\ Finally(c, [cyc[c] EXCEPT !.thrown = TRUE, !.failedAt = cyc[c].pc,
                                 !.sock = IF kind = "error" THEN "errored" ELSE "open"],
               staticData, knownUids)
    /\ UNCHANGED <<params, stopAt, active, trig, fired, hist, sink, nextUid, clVars, parseVars>>

\* the peer closes the connection: the socket emits 'end' and 'close', for
\* which neither connect() nor readResponse() registers a listener, and a
\* closed socket emits no 'data', 'error' or 'timeout' any more: the read
\* that is pending stays pending
PeerCloses(c) ==
    /\ Awaiting(c, {"connect", "user", "pass", "uidl", "retr", "dele", "quit"})
    /\ cyc' = [cyc EXCEPT ![c].sock = "closed"]
    /\ UNCHANGED <<params, stopAt, staticData, knownUids, active, trig, fired, hist, sink,
                   mailbox, nextUid, clVars, parseVars>>

\* quit(): the QUIT read settles either way (on a socket destroyed before
\* the write only if the runtime reports the failed write as an 'error'); the
\* socket is released; then pollMailbox rethrows or emits, executePoll clears
\* `active`, and trigger() or the timer callback gets the outcome
QuitSettles(c) ==
    /\ c \in DOMAIN cyc
    /\ cyc[c].pc = "quit"
    /\ cyc[c].sock \in {"open", "errored"}
    /\ LET r == [cyc[c] EXCEPT !.pc = "ended", !.sock = "released",
                               !.known1 = knownUids, !.delivered = Delivers(cyc[c])]
       IN /\ sink' = IF Delivers(cyc[c]) THEN Append(sink, r.items) ELSE sink
          /\ hist' = Append(hist, r)
          /\ cyc' = Remove(cyc, c)
          /\ active' = FALSE
          /\ trig' = AfterPoll(r.origin, r.thrown, trig)
    /\ UNCHANGED <<params, stopAt, staticData, knownUids, fired, mailbox, nextUid, clVars, parseVars>>

\* a message arrives in the server mailbox
NewMail ==
    /\ nextUid <= MaxMail
    /\ mailbox' = Append(mailbox, nextUid)
    /\ nextUid' = nextUid + 1
    /\ UNCHANGED <<params, stopAt, staticData, knownUids, active, trig, fired, cyc, hist, sink, clVars, parseVars>>

\* positions in cyc: the initial cycle and one cycle per firing at most
CycleIds == 1..(MaxFires + 1)

Next ==
    \/ InitialPoll
    \/ TimerFire
    \/ Stop
    \/ NewMail
    \/ \E c \in CycleIds : ConnectOk(c)
    \/ \E c \in CycleIds : UserOk(c)
    \/ \E c \in CycleIds : PassOk(c)
    \/ \E c \in CycleIds : UidlOk(c)
    \/ \E c \in CycleIds : RetrOk(c)
    \/ \E c \in CycleIds : DeleOk(c)
    \/ \E c \in CycleIds : QuitSettles(c)
    \/ \E c \in CycleIds : PeerCloses(c)
    \/ \E c \in CycleIds, kind \in FailKinds : CommandFails(c, kind)

Spec == Init /\ [][Next]_vars

\* the read a call in flight awaits settles: by a response, by the idle
\* time-out or by a socket error, as long as its socket emits events
Settle ==
    \E c \in CycleIds :
        \/ ConnectOk(c) \/ UserOk(c) \/ PassOk(c) \/ UidlOk(c) \/ RetrOk(c) \/ DeleOk(c)
        \/ QuitSettles(c)
        \/ \E kind \in FailKinds : CommandFails(c, kind)

\* the event loop runs a handler that is ready
SpecFair == Spec /\ WF_vars(Settle)

\* ------------------------------------------------------------------ claims
AllCycles == {cyc[c] : c \in DOMAIN cyc} \cup {hist[i] : i \in DOMAIN hist}

\* the cycle wrote command v to its socket
Wrote(r, v) == \E i \in DOMAIN r.cmds : r.cmds[i][1] = v

\* timer firings that started no cycle
Dropped == fired - Cardinality({i \in DOMAIN cyc : cyc[i].origin = "timer"})
                 - Cardinality({i \in DOMAIN hist : hist[i].origin = "timer"})

\* C1: at most one pollMailbox call is in flight at any moment, and a timer
\* firing that finds a cycle running changes nothing but the count of firings:
\* no session, no command, no read or write of the persisted state, no queue.
C1_SingleFlight ==
    [][ /\ Len(cyc') <= 1
        /\ (fired' # fired /\ active) =>
              UNCHANGED <<params, stopAt, staticData, knownUids, active, trig, cyc, hist,
                          sink, mailbox, nextUid>> ]_vars

\* C1 witness: a firing was dropped while a cycle is in flight
C1_Witness == active /\ Len(cyc) = 1 /\ Dropped > 0

\* C2 (as claimed): a cycle whose RETR or DELE failed after it had produced
\* records delivers those records to the sink as one batch.
C2_PartialBatchDelivered ==
    \A i \in DOMAIN hist :
        (hist[i].failedAt \in {"retr", "dele"} /\ Len(hist[i].items) > 0) =>
            /\ hist[i].delivered
            /\ \E j \in DOMAIN sink : sink[j] = hist[i].items

\* C3 (as claimed): the baseline path is taken only by a cycle that started
\* with the mailbox not yet marked initialized.
C3_BaselineOnlyFirst ==
    \A r \in AllCycles : r.path = "baseline" => ~r.init0

\* the persisted known set after retrieval k of cycle r failed
KnownAfterFailure(r, persisted) ==
    /\ persisted = r.known0 \cup {r.newRefs[j].uid : j \in 1..(r.k - 1)}
    /\ \A j \in r.k..Len(r.newRefs) : r.newRefs[j].uid \notin persisted

\* C4: when the k-th RETR of a cycle fails, the known set persisted by that
\* cycle is the known set at its start plus the uids of the k-1 messages
\* retrieved before, and holds no uid of message k or of a later selected one.
C4_PartialKnown ==
    /\ \A c \in DOMAIN cyc :
          cyc[c].failedAt = "retr" => KnownAfterFailure(cyc[c], staticData.knownUids)
    /\ (cyc = <<>> /\ hist # <<>> /\ Last(hist).failedAt = "retr") =>
          KnownAfterFailure(Last(hist), staticData.knownUids)

\* C4 witness: a cycle ended whose second retrieval failed
C4_Witness ==
    /\ cyc = <<>> /\ hist # <<>>
    /\ Last(hist).failedAt = "retr" /\ Last(hist).k = 2
    /\ Last(hist).known0 # staticData.knownUids

\* C5: with initialized = false and emitOnStart = false, a cycle that lists the
\* mailbox delivers nothing, writes no RETR and no DELE, sets initialized and
\* persists a known set holding every listed uid.
C5_FirstRunSuppression ==
    \A r \in AllCycles :
        (~r.init0 /\ ~emitOnStart /\ r.path # "none") =>
            /\ r.path = "baseline"
            /\ r.items = <<>>
            /\ ~Wrote(r, "RETR") /\ ~Wrote(r, "DELE")
            /\ ~r.delivered
            /\ sink = <<>>
            /\ staticData.initialized
            /\ UidsOf(r.refs) \subseteq staticData.knownUids

\* C5 witness: a first cycle over a mailbox of several messages has ended
C5_Witness ==
    \E i \in DOMAIN hist :
        /\ ~hist[i].init0 /\ ~emitOnStart
        /\ hist[i].path = "baseline" /\ Len(hist[i].refs) >= 2

\* C6 (as claimed): after any cycle, the initial one included, ended with an
\* error the recurring timer is scheduled (until closeFunction stops it).
C6_SchedulerSurvivesAnyCycle ==
    \A i \in DOMAIN hist : hist[i].thrown => trig \in {"scheduled", "stopped"}

\* C6 (amended): after a timer-driven cycle ended with an error the timer is
\* still scheduled (until closeFunction stops it) and `active` is clear again,
\* so the next firing starts a cycle; after the initial cycle ended with an
\* error trigger() has rejected, no timer exists and no further cycle runs.
C6_SchedulerSurvivesTimerCycle ==
    \A i \in DOMAIN hist :
        hist[i].thrown =>
            IF hist[i].origin = "timer"
            THEN /\ trig \in {"scheduled", "stopped"}
                 /\ cyc = <<>> => ~active
            ELSE /\ trig = "rejected"
                 /\ fired = 0 /\ cyc = <<>> /\ Len(hist) = 1

\* C6 witness: a timer-driven cycle failed and a later firing started a cycle
C6_Witness ==
    \E i \in DOMAIN hist :
        /\ hist[i].thrown /\ hist[i].origin = "timer"
        /\ i < Len(hist) \/ cyc # <<>>

\* the positions in refs whose uid is not in known
UnknownAt(refs, known) == {i \in DOMAIN refs : refs[i].uid \notin known}

\* the j-th smallest member of a set of numbers
JthSmallest(S, j) == CHOOSE i \in S : Cardinality({m \in S : m < i}) = j - 1

\* newRefs is the first lim unknown references of refs, in the order of refs
IsFirstUnknown(newRefs, refs, known, lim) ==
    LET unk == UnknownAt(refs, known)
    IN /\ Len(newRefs) = IF Cardinality(unk) < lim THEN Cardinality(unk) ELSE lim
       /\ \A j \in DOMAIN newRefs : newRefs[j] = refs[JthSmallest(unk, j)]

\* items are the records of the first Len(items) references of newRefs
IsPrefixOf(items, newRefs) ==
    /\ Len(items) <= Len(newRefs)
    /\ \A j \in DOMAIN items :
          items[j].uid = newRefs[j].uid /\ items[j].index = newRefs[j].index

\* C9: in a normal cycle the selection is the first `limit` listed references
\* with an unknown uid, in server order; the records follow it in order and
\* are at most `limit`; only selected uids join the known set, so the unknown
\* references beyond the limit are still unknown when the cycle ends.
C9_LimitEnforcement ==
    /\ \A r \in AllCycles :
          r.path = "normal" =>
              /\ IsFirstUnknown(r.newRefs, r.refs, r.known0, limit)
              /\ IsPrefixOf(r.items, r.newRefs)
              /\ Len(r.items) <= limit
              /\ r.delivered => Len(r.items) = Len(r.newRefs)
    /\ \A c \in DOMAIN cyc :
          cyc[c].path = "normal" =>
              knownUids \subseteq cyc[c].known0 \cup UidsOf(cyc[c].newRefs)
    /\ \A i \in DOMAIN hist :
          hist[i].path = "normal" =>
              /\ hist[i].known1 = hist[i].known0 \cup UidsOf(hist[i].items)
              /\ hist[i].delivered =>
                    \E j \in DOMAIN sink : sink[j] = hist[i].items

\* C9 witness: a cycle delivered exactly `limit` records and left an unknown
\* listed reference for the next cycle
C9_Witness ==
    \E i \in DOMAIN hist :
        /\ hist[i].path = "normal" /\ hist[i].delivered
        /\ Len(hist[i].items) = limit
        /\ Cardinality(UnknownAt(hist[i].refs, hist[i].known0)) > limit
        /\ \E j \in DOMAIN hist[i].refs : hist[i].refs[j].uid \notin hist[i].known1

\* the cycle emitted nothing, wrote no RETR or DELE and left the known set alone
Silent(r) ==
    /\ r.items = <<>> /\ ~r.delivered
    /\ ~Wrote(r, "RETR") /\ ~Wrote(r, "DELE")
    /\ r.pc = "ended" => r.known1 = r.known0

\* C10 (as claimed): of two consecutive cycles that both ran to their end
\* without error in an initialized mailbox with a non-empty known set, with no
\* uid listed to the second that was not listed to the first, the second is
\* silent.
C10_SecondCycleSilent ==
    \A i \in 1..(Len(hist) - 1) :
        ( /\ hist[i + 1].init0 /\ hist[i + 1].known0 # {}
          /\ ~hist[i].thrown /\ ~hist[i + 1].thrown
          /\ UidsOf(hist[i + 1].refs) \subseteq UidsOf(hist[i].refs) )
        => Silent(hist[i + 1])

\* C10 (amended): in an initialized mailbox a cycle to which every listed uid
\* is already known is silent; of two consecutive cycles with no new message
\* between them the second is silent provided every uid listed to the first
\* was known when the first ended.
C10_AllKnownSilent ==
    /\ \A r \in AllCycles :
          (r.init0 /\ r.path # "none" /\ UidsOf(r.refs) \subseteq r.known0) => Silent(r)
    /\ \A i \in 1..(Len(hist) - 1) :
          ( /\ hist[i + 1].init0
            /\ hist[i].path # "none" /\ hist[i + 1].path # "none"
            /\ UidsOf(hist[i + 1].refs) \subseteq UidsOf(hist[i].refs)
            /\ UidsOf(hist[i].refs) \subseteq hist[i].known1 )
          => Silent(hist[i + 1])

\* C10 witness: a normal cycle followed a cycle over the same non-empty
\* listing that left every listed uid known
C10_Witness ==
    \E i \in 1..(Len(hist) - 1) :
        /\ hist[i + 1].init0 /\ hist[i + 1].path = "normal"
        /\ hist[i].path = "normal" /\ hist[i].delivered
        /\ hist[i + 1].refs # <<>>
        /\ UidsOf(hist[i + 1].refs) \subseteq UidsOf(hist[i].refs)
        /\ UidsOf(hist[i].refs) \subseteq hist[i].known1

\* the first line of a response
FirstLine(r) == Slice(r, 0, IndexOf(r, CRLF))

\* the reason of an -ERR status line: the token and the white space around
\* the rest removed
ReasonText(r) == Trim(Slice(FirstLine(r), Len(ErrToken), Len(FirstLine(r))))

\* the whole response to the command written last has arrived
ResponseArrived == reading \in {"single", "multi"} /\ resp # <<>> /\ wire = <<>>

\* C7 (as claimed): once the response to a command, single-line or multi-line,
\* has arrived, a first line starting with -ERR has made the command fail with
\* the reason text as message, and a first line starting with +OK has not made
\* it fail.
C7_StatusInterpretation ==
    ResponseArrived =>
        /\ StartsWith(resp, ErrToken) => outcome = Rejected(ReasonText(resp))
        /\ StartsWith(resp, OkToken) => outcome.state # "rejected"

\* C8 (as claimed): a read does not stay pending on a socket that the peer
\* has closed or that has reported an error.
C8_ReadSettlesOnClose ==
    socket = "closed" => outcome.state # "pending"

\* C11 (as claimed): quit() never raises; once it has ended the socket is
\* released and a further command fails without a write; and a quit in progress
\* waits on a socket that still emits events, so that +OK, -ERR, the idle
\* time-out or an error ends it.
C11_QuitTotal ==
    /\ quit \in {"none", "pending", "resolved"}
    /\ quit = "resolved" => socket = "null" /\ listeners = {}
    /\ calls > ncmds => verb = "QUIT" /\ outcome = Rejected(<<"Socket not connected">>)
    /\ quit = "pending" => socket \in {"open", "broken"}

\* the response ends with the terminator of its read
Framed(r, multiline) ==
    /\ Len(r) >= Len(Terminator(multiline))
    /\ SubSeq(r, Len(r) - Len(Terminator(multiline)) + 1, Len(r)) = Terminator(multiline)

\* C12: however a response that ends with its terminator is split into
\* chunks, the read stays pending, with all that arrived in the buffer, until
\* the last byte of the terminator has arrived; then it has settled with the
\* outcome of the response arriving as one chunk, and the buffer is empty.
C12_Framing ==
    ( /\ reading \in {"single", "multi"} /\ calls = ncmds
      /\ resp # <<>> /\ Framed(resp, reading = "multi")
      /\ outcome.text # <<"socket error">> )
    => IF wire # <<>>
       THEN /\ outcome = Pending
            /\ buffer = SubSeq(resp, 1, Len(resp) - Len(wire))
            /\ listeners = AllListeners
       ELSE /\ outcome = OnData(<<>>, resp, reading = "multi").outcome
            /\ buffer = <<>>
            /\ listeners = {}

\* C12 witness: a multi-line response that arrived byte by byte, so split at
\* every place inside its terminator, has resolved
C12_Witness ==
    /\ reading = "multi" /\ Framed(resp, TRUE)
    /\ wire = <<>> /\ chunks = Len(resp)
    /\ outcome.state = "resolved"

\* the line has the form "<index> <uid>": a run of digits denoting a positive
\* number, one space, and a non-empty uid
IsRefLine(line) ==
    LET fields == Split(Trim(line), <<" ">>)
    IN /\ Len(fields) = 2
       /\ fields[1] # <<>> /\ \A i \in DOMAIN fields[1] : IsDigit(fields[1][i])
       /\ DigitsValue(fields[1]) > 0
       /\ fields[2] # <<>>

\* the references of the lines of that form, in the order of the lines
RefsOf(lines) ==
    LET good == SelectSeq(lines, IsRefLine)
    IN [i \in DOMAIN good |->
          [index |-> DigitsValue(Split(Trim(good[i]), <<" ">>)[1]),
           uid |-> Split(Trim(good[i]), <<" ">>)[2]]]

\* C13 (as claimed): listUids returns, in server order, one reference per
\* listed line of the form "<index> <uid>" with a positive index, and drops
\* every other line; an empty listing gives the empty sequence.
C13_UidlParsing ==
    uidlOut.done => uidlOut.refs = RefsOf(listing)

\* the uids of the records of a batch or of a cycle
ItemUids(items) == {items[j].uid : j \in DOMAIN items}

\* C14: no uid is delivered to the sink twice, in one batch or in two; and a
\* message that a cycle retrieved (whether or not its DELE then failed) is
\* not selected, so neither retrieved nor emitted, by any later cycle.
C14_AtMostOnce ==
    /\ \A a, b \in DOMAIN sink : \A i \in DOMAIN sink[a], j \in DOMAIN sink[b] :
          sink[a][i].uid = sink[b][j].uid => a = b /\ i = j
    /\ \A i, j \in DOMAIN hist :
          i < j => ItemUids(hist[i].items) \cap UidsOf(hist[j].newRefs) = {}
    /\ \A i \in DOMAIN hist, c \in DOMAIN cyc :
          ItemUids(hist[i].items) \cap UidsOf(cyc[c].newRefs) = {}

\* C14 witness: the DELE of a retrieved message failed, the message is still
\* listed to a later cycle, and that cycle ran its selection
C14_Witness ==
    \E i, j \in DOMAIN hist :
        /\ i < j
        /\ hist[i].failedAt = "dele"
        /\ hist[j].path = "normal"
        /\ Last(hist[i].items).uid \in UidsOf(hist[j].refs)

\* the steps of a cycle before listUids has returned
EarlySteps == {"connect", "user", "pass", "uidl"}

\* C15: between cycles the persisted known set is the in-memory one; a cycle
\* that failed in connect, USER, PASS or UIDL has produced and delivered
\* nothing and leaves the persisted known set and the initialized flag as they
\* were when it started.
C15_EarlyFailureKeepsState ==
    /\ cyc = <<>> => staticData.knownUids = knownUids
    /\ \A c \in DOMAIN cyc :
          cyc[c].failedAt \in EarlySteps =>
              /\ cyc[c].items = <<>>
              /\ staticData.knownUids = cyc[c].known0
              /\ staticData.initialized = cyc[c].init0
    /\ \A i \in DOMAIN hist :
          hist[i].failedAt \in EarlySteps =>
              /\ hist[i].items = <<>> /\ ~hist[i].delivered
              /\ hist[i].known1 = hist[i].known0
              /\ (i = Len(hist) /\ cyc = <<>>) =>
                    staticData = [knownUids |-> hist[i].known0,
                                  initialized |-> hist[i].init0]

\* C15 witness: a cycle that started uninitialized with messages on the
\* server failed at UIDL and has ended
C15_Witness ==
    /\ cyc = <<>> /\ hist # <<>>
    /\ Last(hist).failedAt = "uidl" /\ ~Last(hist).init0
    /\ mailbox # <<>>

\* responses to the commands of the cycle that have settled
Settled(r) ==
    (IF r.oks > 0 THEN r.oks - 1 ELSE 0)
    + (IF r.failedAt \in {"user", "pass", "uidl", "retr", "dele"} THEN 1 ELSE 0)
    + (IF r.pc = "ended" THEN 1 ELSE 0)

\* C16: in a session in flight the i-th command, QUIT apart, is written only
\* after the greeting and the i-1 commands before it got +OK; USER, PASS and
\* UIDL come first in that order, RETR only after UIDL, DELE n right after
\* RETR n, and QUIT last; at no time is more than one command without its
\* response, and when the session has ended none is.
C16_CommandOrdering ==
    /\ \A c \in DOMAIN cyc :
          LET r == cyc[c]
          IN /\ \A i \in DOMAIN r.cmds :
                   LET v == r.cmds[i][1]
                   IN /\ v # "QUIT" => r.oks >= i
                      /\ v = "QUIT" => i = Len(r.cmds)
                      /\ v = "USER" => i = 1
                      /\ v = "PASS" => i = 2 /\ r.cmds[1][1] = "USER"
                      /\ v = "UIDL" => i = 3 /\ r.cmds[2][1] = "PASS"
                      /\ v = "RETR" => i > 3 /\ r.cmds[3][1] = "UIDL"
                      /\ v = "DELE" => i > 4 /\ r.cmds[i - 1] = <<"RETR", r.cmds[i][2]>>
             /\ Len(r.cmds) - Settled(r) = IF r.pc = "connect" THEN 0 ELSE 1
    /\ hist # <<>> => Len(Last(hist).cmds) = Settled(Last(hist))

\* C16 witness: a session has written every kind of command, QUIT last
C16_Witness ==
    \E c \in DOMAIN cyc :
        /\ Wrote(cyc[c], "DELE") /\ Last(cyc[c].cmds)[1] = "QUIT"
        /\ Len(cyc[c].cmds) >= 6

\* C17: when USER fails login() ends there: PASS is never written, nor any
\* command of the cycle but QUIT.
C17_LoginStopsAtFirstFailure ==
    \A r \in AllCycles :
        r.failedAt = "user" =>
            /\ ~Wrote(r, "PASS")
            /\ r.thrown
            /\ r.cmds = <<<<"USER", 0>>, <<"QUIT", 0>>>>

\* C17 witness: a cycle whose USER failed has ended
C17_Witness ==
    \E i \in DOMAIN hist : hist[i].failedAt = "user"

\* C18: once closeFunction has run the timer does not fire and no cycle
\* starts; the cycle that was in flight is kept, and when it has ended it has
\* persisted the known set.
C18_StopCancelsTimer ==
    trig = "stopped" =>
        /\ fired = stopAt.fired
        /\ Len(hist) + Len(cyc) = stopAt.started
        /\ \A i \in (stopAt.ended + 1)..Len(hist) :
              /\ hist[i].pc = "ended"
              /\ i = Len(hist) => staticData.knownUids = hist[i].known1

\* C18 witness: a cycle that was in flight when closeFunction ran has ended
\* since and has delivered its batch
C18_Witness ==
    /\ trig = "stopped"
    /\ Len(hist) > stopAt.ended
    /\ Last(hist).delivered
    /\ Last(hist).known1 # Last(hist).known0

\* C19 (as claimed): the single-flight flag that a started cycle set is
\* cleared again: every started cycle ends.
C19_CycleEnds == active ~> ~active

\* the records of the cycle whose message has the index
ItemsAt(r, index) == {j \in DOMAIN r.items : r.items[j].index = index}

\* C20: in a session in flight a DELE is written only with
\* deleteAfterDownload set, in a normal cycle, right after the RETR of the
\* same index (so before the next RETR), when that RETR has produced its
\* record and the uid is in the known set; with the parameter clear, or in a
\* baseline cycle, no DELE is written.
C20_DeletionSafety ==
    \A c \in DOMAIN cyc :
        LET r == cyc[c]
        IN /\ \A i \in DOMAIN r.cmds :
                 r.cmds[i][1] = "DELE" =>
                     /\ deleteAfterDownload
                     /\ r.path = "normal"
                     /\ i > 1 /\ r.cmds[i - 1] = <<"RETR", r.cmds[i][2]>>
                     /\ ItemsAt(r, r.cmds[i][2]) # {}
                     /\ \A j \in ItemsAt(r, r.cmds[i][2]) : r.items[j].uid \in knownUids
           /\ (~deleteAfterDownload \/ r.path = "baseline") => ~Wrote(r, "DELE")

\* C20 witness: a cycle wrote the DELE of one message and then the RETR of
\* the next
C20_Witness ==
    \E c \in DOMAIN cyc : \E i \in DOMAIN cyc[c].cmds :
        /\ cyc[c].cmds[i][1] = "DELE"
        /\ i < Len(cyc[c].cmds) /\ cyc[c].cmds[i + 1][1] = "RETR"

====
